---- MODULE Spec2Model ----
(***************************************************************************)
(* Event-sourced Formation aggregate (src/index.ts): the in-memory event   *)
(* store, the domain events, the Formation aggregate, the repository that  *)
(* folds events into a state, and the demo driver with its two timers.     *)
(*                                                                         *)
(* JavaScript values are modelled as strings ("undefined" and "null" for   *)
(* the two nullish values), plain objects as functions whose domain is the *)
(* set of their own keys, arrays as sequences.  createdAt is an ISO-8601   *)
(* string in the code; the strings Date.toISOString produces are ordered   *)
(* by < exactly as the instants they denote, so the model keeps the        *)
(* instant (a natural number of clock ticks).  A changes payload is an     *)
(* object shared by reference between an event, its record in the store    *)
(* and every event rebuilt from that record: the model keeps the payloads  *)
(* in a heap and the events hold references into it.                       *)
(***************************************************************************)
EXTENDS Integers, Sequences, FiniteSets, TLC

VARIABLES
  events,    \* InMemoryEventStore.events: the log of IEvent records
  heap,      \* the changes payload objects, by reference
  aggregate, \* the caller's Formation variable: << >> before it is assigned
  clock,     \* what new Date() returns
  pc,        \* where main() stands ("caller": main is not the caller)
  timers     \* the setTimeout calls made so far, in the order they were made

vars == <<events, heap, aggregate, clock, pc, timers>>

----------------------------------------------------------------------------
(* Bounds of the model *)

MaxLog == 3
MaxHeap == 2
MaxClock == 4

----------------------------------------------------------------------------
(* JavaScript values *)

Undefined == "undefined"
Null == "null"

EmptyObj == [k \in {} |-> Undefined]

\* o[k] on a plain object: undefined when k is not an own key
Get(o, k) == IF k \in DOMAIN o THEN o[k] ELSE Undefined

\* a ?? b
Coalesce(a, b) == IF a = Undefined \/ a = Null THEN b ELSE a

\* { ...prev, ...cur }
Spread(prev, cur) ==
  [k \in (DOMAIN prev) \cup (DOMAIN cur) |->
     IF k \in DOMAIN cur THEN cur[k] ELSE prev[k]]

----------------------------------------------------------------------------
(* Input domains *)

Ids == {"X", "Y"}
Noms == {"DDD"}
Durees == {"14"}
Dates == {"2020", "2021"}
Formateurs == {"SRE"}

----------------------------------------------------------------------------
(* Domain events: DomainEvent, FormationCreee, FormationPlanifiee *)

FORMATION_CREEE == "FORMATION_CREEE"
FORMATION_PLANIFIEE == "FORMATION_PLANIFIEE"

\* The constructor, were it to stamp every event it builds with the current
\* instant
DomainEvent_Restamp(class, nom, aggregateId, changes, createdAt, now) ==
  [ class       |-> class,
    nom         |-> nom,
    aggregateId |-> aggregateId,
    changes     |-> changes,
    createdAt   |-> now ]

\* The optional createdAt parameter: << >> when omitted, <<t>> when given.
\* constructor(aggregateId, changes, createdAt?) of a variant; changes is a
\* reference into the heap, now is what new Date() returns.
DomainEvent(class, nom, aggregateId, changes, createdAt, now) ==
  [ class       |-> class,
    nom         |-> nom,
    aggregateId |-> aggregateId,
    changes     |-> changes,
    createdAt   |-> IF createdAt = << >> THEN now ELSE createdAt[1] ]

FormationCreee(aggregateId, changes, createdAt, now) ==
  DomainEvent("FormationCreee", FORMATION_CREEE, aggregateId, changes, createdAt, now)

\* FormationPlanifiee, were its tag spelt another way than in fromState
FormationPlanifiee_Misspelt(aggregateId, changes, createdAt, now) ==
  DomainEvent("FormationPlanifiee", "FORMATION_PLANIFIE", aggregateId, changes, createdAt, now)

FormationPlanifiee(aggregateId, changes, createdAt, now) ==
  DomainEvent("FormationPlanifiee", FORMATION_PLANIFIEE, aggregateId, changes, createdAt, now)

FormationCreee_creer(aggregateId, data, now) ==
  FormationCreee(aggregateId, data, << >>, now)

FormationPlanifiee_creer(aggregateId, data, now) ==
  FormationPlanifiee(aggregateId, data, << >>, now)

\* DomainEvent.toState(): the plain IEvent record
toState(e) ==
  [ nom         |-> e.nom,
    aggregateId |-> e.aggregateId,
    createdAt   |-> e.createdAt,
    changes     |-> e.changes ]

UnknownKind == [error |-> "Type d'evenement inconnu"]

IsError(x) == "error" \in DOMAIN x

\* DomainEvent.fromState(e): dispatch on e.nom, throw on any other tag
DomainEvent_fromState(e, now) ==
  CASE e.nom = FORMATION_CREEE ->
         FormationCreee(e.aggregateId, e.changes, <<e.createdAt>>, now)
    [] e.nom = FORMATION_PLANIFIEE ->
         FormationPlanifiee(e.aggregateId, e.changes, <<e.createdAt>>, now)
    [] OTHER -> UnknownKind

----------------------------------------------------------------------------
(* InMemoryEventStore *)

\* add, were it to put the record first (unshift)
add_Unshift(log, event) == <<toState(event)>> \o log

\* add(event): this.events.push(event.toState())
add(log, event) == Append(log, toState(event))

\* list, were it to leave out the records it cannot rebuild
list_SkipUnknown(log, now) ==
  [ threw |-> FALSE,
    value |-> SelectSeq([k \in 1..Len(log) |-> DomainEvent_fromState(log[k], now)],
                        LAMBDA e : ~IsError(e)) ]

\* list(): this.events.map(e => DomainEvent.fromState(e)); when a record
\* has an unknown tag the exception is the outcome and no array is returned
list(log, now) ==
  LET mapped == [k \in 1..Len(log) |-> DomainEvent_fromState(log[k], now)]
  IN  IF \E k \in 1..Len(log) : IsError(mapped[k])
      THEN [threw |-> TRUE, value |-> << >>]
      ELSE [threw |-> FALSE, value |-> mapped]

----------------------------------------------------------------------------
(* Formation *)

\* The constructor, were it to leave out the ?? null defaults
Formation_NoDefault(args) ==
  [ id            |-> Get(args, "id"),
    nom           |-> Get(args, "nom"),
    dureeEnHeures |-> Get(args, "dureeEnHeures"),
    date          |-> Get(args, "date"),
    nomFormateur  |-> Get(args, "nomFormateur"),
    events        |-> << >> ]

\* private constructor(args)
Formation(args) ==
  [ id            |-> Get(args, "id"),
    nom           |-> Get(args, "nom"),
    dureeEnHeures |-> Get(args, "dureeEnHeures"),
    date          |-> Coalesce(Get(args, "date"), Null),
    nomFormateur  |-> Coalesce(Get(args, "nomFormateur"), Null),
    events        |-> << >> ]

\* The payload, were it to leave out nomFormateur
PlanifieeChanges_DateOnly(f) == [date |-> f.date]

\* The object literal planifierLe hands to FormationPlanifiee.creer
PlanifieeChanges(f) ==
  [date |-> f.date, nomFormateur |-> f.nomFormateur]

\* planifierLe, were it to set the fields and record nothing
planifierLe_NoEvent(f, date, nomFormateur, ref, now) ==
  [f EXCEPT !.date = date, !.nomFormateur = nomFormateur]

\* planifierLe(date, nomFormateur) on f; ref is where the payload is allocated
planifierLe(f, date, nomFormateur, ref, now) ==
  [f EXCEPT !.date = date,
            !.nomFormateur = nomFormateur,
            !.events = Append(@, FormationPlanifiee_creer(f.id, ref, now))]

\* The creation payload, were it to leave out dureeEnHeures
CreeeChanges_NoDuree(f) == [id |-> f.id, nom |-> f.nom]

\* The object literal creer hands to FormationCreee.creer
CreeeChanges(f) ==
  [id |-> f.id, nom |-> f.nom, dureeEnHeures |-> f.dureeEnHeures]

\* Formation.creer(id, nom, dureeEnHeures)
Formation_creer(id, nom, dureeEnHeures, ref, now) ==
  LET formation == Formation([id |-> id, nom |-> nom, dureeEnHeures |-> dureeEnHeures])
  IN  [formation EXCEPT !.events = Append(@, FormationCreee_creer(formation.id, ref, now))]

\* fromState, were it to hand back the creation as a pending event
Formation_fromState_Reemit(state) ==
  [Formation(state) EXCEPT
     !.events = <<FormationCreee(Get(state, "id"), 1, <<0>>, 0)>>]

\* Formation.fromState(state)
Formation_fromState(state) ==
  Formation([ id            |-> Get(state, "id"),
              nom           |-> Get(state, "nom"),
              dureeEnHeures |-> Get(state, "dureeEnHeures"),
              date          |-> Get(state, "date"),
              nomFormateur  |-> Get(state, "nomFormateur") ])

----------------------------------------------------------------------------
(* FormationRepository *)

\* persist, were it to append the pending events last first
RECURSIVE persist_Reversed(_, _)
persist_Reversed(log, pending) ==
  IF pending = << >> THEN log
  ELSE add(persist_Reversed(log, Tail(pending)), Head(pending))

\* persist, were it to skip the events whose record is in the log already
RECURSIVE persist_Idempotent(_, _)
persist_Idempotent(log, pending) ==
  IF pending = << >> THEN log
  ELSE persist_Idempotent(
         IF \E k \in 1..Len(log) : log[k] = toState(Head(pending))
         THEN log ELSE add(log, Head(pending)),
         Tail(pending))

\* persist, were it to append the newest pending event only
persist_LastOnly(log, pending) ==
  IF pending = << >> THEN log ELSE add(log, pending[Len(pending)])

\* persist(f): f.events.forEach(e => this.eventStore.add(e))
RECURSIVE persist(_, _)
persist(log, pending) ==
  IF pending = << >> THEN log
  ELSE persist(add(log, Head(pending)), Tail(pending))

\* The filter, were it to let every event through
eventsForAggregate_All(listed, id) == listed

\* .filter(e => e.aggregateId === id)
eventsForAggregate(listed, id) ==
  SelectSeq(listed, LAMBDA e : e.aggregateId = id)

\* The comparator, were its test the other way round
comparator_Reversed(prev, cur) == IF prev.createdAt > cur.createdAt THEN -1 ELSE 1

\* (prev, cur) => prev.createdAt < cur.createdAt ? -1 : 1
comparator(prev, cur) == IF prev.createdAt < cur.createdAt THEN -1 ELSE 1

\* The orders in which the indices in S can be arranged
RECURSIVE Perms(_)
Perms(S) ==
  IF S = {} THEN {<< >>}
  ELSE UNION {{<<x>> \o p : p \in Perms(S \ {x})} : x \in S}

\* The sort, were it to leave the events in the order of the log
sort_LogOrder(s) == {s}

\* Array.prototype.sort(comparator): the results the language allows.  A
\* pair the comparator orders consistently (a before b one way, b after a
\* the other way) comes out in that order; a pair it calls equal (0 both
\* ways) keeps its input order; on a pair it answers inconsistently the
\* order is implementation-defined (ECMA-262, Array.prototype.sort), so
\* both orders are results.
sort(s) ==
  LET n == Len(s)
      ok(p) ==
        \A i, j \in 1..n : i < j =>
          /\ ~(comparator(s[p[j]], s[p[i]]) < 0 /\ comparator(s[p[i]], s[p[j]]) > 0)
          /\ (comparator(s[p[i]], s[p[j]]) = 0 /\ comparator(s[p[j]], s[p[i]]) = 0)
               => p[i] < p[j]
  IN  {[k \in 1..n |-> s[p[k]]] : p \in {q \in Perms(1..n) : ok(q)}}

\* reduce, were the spread the other way round (first write wins)
RECURSIVE reduce_FirstWins(_, _, _)
reduce_FirstWins(refs, prev, objs) ==
  IF refs = << >> THEN prev
  ELSE reduce_FirstWins(Tail(refs), Spread(objs[Head(refs)], prev), objs)

\* .reduce((prev, cur) => ({ ...prev, ...cur }), {}) over the payloads
RECURSIVE reduce(_, _, _)
reduce(refs, prev, objs) ==
  IF refs = << >> THEN prev
  ELSE reduce(Tail(refs), Spread(prev, objs[Head(refs)]), objs)

\* The state getById hands to Formation.fromState, for one result of the sort
stateOf(sorted, objs) ==
  reduce([k \in 1..Len(sorted) |-> sorted[k].changes], EmptyObj, objs)

\* getById(id): the states it can compute on this log; none when list()
\* throws, the exception leaving getById before anything is folded
getById(log, id, objs, now) ==
  IF list(log, now).threw THEN {}
  ELSE {stateOf(sorted, objs) :
          sorted \in sort(eventsForAggregate(list(log, now).value, id))}

----------------------------------------------------------------------------
(* A caller of the repository, the store and the aggregate.                *)
(* The state after construction: new InMemoryEventStore(), no aggregate.   *)

Init ==
  /\ events = << >>
  /\ heap = << >>
  /\ aggregate = << >>
  /\ clock = 0
  /\ pc = "caller"
  /\ timers = << >>

\* Time passes.  Only the order of the instants matters to the program, so
\* the clock moves on only once an event was stamped with the current instant.
Tick ==
  /\ clock < Len(heap)
  /\ clock' = clock + 1
  /\ UNCHANGED <<events, heap, aggregate, pc, timers>>

\* aggregate = Formation.creer(id, nom, dureeEnHeures)
Creer(id, nom, dureeEnHeures) ==
  /\ Len(heap) < MaxHeap
  /\ LET created == Formation_creer(id, nom, dureeEnHeures, Len(heap) + 1, clock)
     IN  /\ heap' = Append(heap, CreeeChanges(created))
         /\ aggregate' = <<created>>
  /\ UNCHANGED <<events, clock, pc, timers>>

\* aggregate.planifierLe(date, nomFormateur)
PlanifierLe(date, nomFormateur) ==
  /\ aggregate # << >>
  /\ Len(heap) < MaxHeap
  /\ LET planned == planifierLe(aggregate[1], date, nomFormateur, Len(heap) + 1, clock)
     IN  /\ heap' = Append(heap, PlanifieeChanges(planned))
         /\ aggregate' = <<planned>>
  /\ UNCHANGED <<events, clock, pc, timers>>

\* formationRepository.persist(aggregate)
Persist ==
  /\ aggregate # << >>
  /\ Len(events) + Len(aggregate[1].events) <= MaxLog
  /\ events' = persist(events, aggregate[1].events)
  /\ UNCHANGED <<heap, aggregate, clock, pc, timers>>

\* aggregate = formationRepository.getById(id); when list() throws, the
\* exception leaves the assignment undone
GetById(id) ==
  /\ IF list(events, clock).threw
     THEN UNCHANGED aggregate
     ELSE \E state \in getById(events, id, heap, clock) :
            aggregate' = <<Formation_fromState(state)>>
  /\ UNCHANGED <<events, heap, clock, pc, timers>>

\* The records a caller rebuilds events from to add them itself: one stamped
\* with the first instant, one stamped with an instant still to come
AddPool ==
  {[nom |-> FORMATION_PLANIFIEE, aggregateId |-> "X", createdAt |-> t,
    changes |-> [nom |-> "TDD", date |-> "2019"]] : t \in {0, 2}}

\* eventStore.add(DomainEvent.fromState(r)), the payload a new object
Add(r) ==
  /\ Len(heap) < MaxHeap
  /\ Len(events) < MaxLog
  /\ heap' = Append(heap, r.changes)
  /\ events' = add(events,
                   DomainEvent_fromState([r EXCEPT !.changes = Len(heap) + 1], clock))
  /\ UNCHANGED <<aggregate, clock, pc, timers>>

Next ==
  \/ Tick
  \/ \E id \in Ids, nom \in Noms, d \in Durees : Creer(id, nom, d)
  \/ \E date \in Dates, n \in Formateurs : PlanifierLe(date, n)
  \/ Persist
  \/ \E id \in Ids : GetById(id)
  \/ \E r \in AddPool : Add(r)

Spec == Init /\ [][Next]_vars

----------------------------------------------------------------------------
(* main(): one Formation created and persisted, loaded once after a delay, *)
(* and two planifierFormation tasks that share it, each behind its own     *)
(* delay.  A delay is a number of instants; the demo's are 1000 ms, then   *)
(* 2000 ms and 0 ms.  A timer fires at its due instant or later, and the   *)
(* timers that are due fire in the order of their due instants, then in    *)
(* the order they were set.  What follows an await runs to the next await  *)
(* with nothing in between.                                                *)

Delays == {0, 1, 2}

Timer(who, date, due) ==
  [who |-> who, date |-> date, due |-> due, done |-> FALSE]

\* delay(duration): setTimeout(resolve, duration)
delay(duration) == Timer("main", Undefined, clock + duration)

\* planifierFormation(f, after, date) up to its await delay(after)
planifierFormation(after, date) == Timer("task", date, clock + after)

\* The choice of the next timer, were any timer that is due to run
IsNext_AnyDue(k) ==
  /\ ~timers[k].done
  /\ timers[k].due <= clock

\* The timer the event loop runs next, among those not yet fired
IsNext(k) ==
  /\ ~timers[k].done
  /\ timers[k].due <= clock
  /\ \A j \in 1..Len(timers) :
       (j # k /\ ~timers[j].done) =>
         \/ timers[k].due < timers[j].due
         \/ (timers[k].due = timers[j].due /\ k < j)

Fired(k) == [timers EXCEPT ![k].done = TRUE]

RaceInit ==
  /\ events = << >>
  /\ heap = << >>
  /\ aggregate = << >>
  /\ clock = 0
  /\ pc = "start"
  /\ timers = << >>

\* time passes while main and the tasks wait
RaceTick ==
  /\ clock < MaxClock
  /\ clock' = clock + 1
  /\ UNCHANGED <<events, heap, aggregate, pc, timers>>

\* f1 = Formation.creer('DDD01', ...); persist(f1); await delay(1000)
MainCreate ==
  /\ pc = "start"
  /\ LET f1 == Formation_creer("DDD01", "Introduction a DDD", "14", Len(heap) + 1, clock)
     IN  /\ heap' = Append(heap, CreeeChanges(f1))
         /\ aggregate' = <<f1>>
         /\ events' = persist(events, f1.events)
  /\ timers' = Append(timers, delay(1))
  /\ pc' = "delay"
  /\ UNCHANGED clock

\* f2 = getById('DDD01'); the two planifierFormation(f2, after, date) calls,
\* each up to its await; await Promise.all
MainLoad(after1, date1, after2, date2) ==
  /\ pc = "delay"
  /\ IsNext(1)
  /\ \E state \in getById(events, "DDD01", heap, clock) :
       aggregate' = <<Formation_fromState(state)>>
  /\ timers' = Fired(1) \o <<planifierFormation(after1, date1),
                             planifierFormation(after2, date2)>>
  /\ pc' = "race"
  /\ UNCHANGED <<events, heap, clock>>

\* a task after its delay: f.planifierLe(date, 'SRE'); persist(f)
TaskRun(k) ==
  /\ pc = "race"
  /\ k \in 1..Len(timers)
  /\ timers[k].who = "task"
  /\ IsNext(k)
  /\ LET planned == planifierLe(aggregate[1], timers[k].date, "SRE", Len(heap) + 1, clock)
     IN  /\ heap' = Append(heap, PlanifieeChanges(planned))
         /\ aggregate' = <<planned>>
         /\ events' = persist(events, planned.events)
  /\ timers' = Fired(k)
  /\ UNCHANGED <<clock, pc>>

\* both tasks settled: f3 = getById('DDD01'); console.log
MainReload ==
  /\ pc = "race"
  /\ \A k \in 1..Len(timers) : timers[k].done
  /\ \E state \in getById(events, "DDD01", heap, clock) :
       aggregate' = <<Formation_fromState(state)>>
  /\ pc' = "done"
  /\ UNCHANGED <<events, heap, clock, timers>>

RaceNext ==
  \/ RaceTick
  \/ MainCreate
  \/ \E a1 \in Delays, a2 \in Delays, d1 \in Dates, d2 \in Dates :
       d1 # d2 /\ MainLoad(a1, d1, a2, d2)
  \/ \E k \in 2..3 : TaskRun(k)
  \/ MainReload

SpecRace == RaceInit /\ [][RaceNext]_vars

----------------------------------------------------------------------------
(* A caller that also writes to what list() handed it.  list() builds a    *)
(* new array of new DomainEvent objects, but fromState hands each          *)
(* constructor the changes object of the record itself, and the            *)
(* constructor keeps that reference: listed[k].changes is the object the   *)
(* record in the store holds.                                              *)

\* const listed = eventStore.list(); listed[k].changes[key] = value
Tamper(k, key, value) ==
  /\ ~list(events, clock).threw
  /\ k \in 1..Len(list(events, clock).value)
  /\ Get(heap[list(events, clock).value[k].changes], key) # value
  /\ heap' = [heap EXCEPT ![list(events, clock).value[k].changes] =
                            Spread(@, [x \in {key} |-> value])]
  /\ UNCHANGED <<events, aggregate, clock, pc, timers>>

TamperNext ==
  \/ Next
  \/ \E k \in 1..MaxLog : Tamper(k, "nom", "hack")

SpecTamper == Init /\ [][TamperNext]_vars

----------------------------------------------------------------------------
(* A caller that also adds an event of a class of its own.  DomainEvent is *)
(* abstract and add takes any DomainEvent: a subclass declared elsewhere   *)
(* with another nom is stored by add as any other event, and fromState     *)
(* has no case for its tag.                                                *)

\* class Autre extends DomainEvent { nom = 'NOPE' }
Autre(aggregateId, changes, createdAt, now) ==
  DomainEvent("Autre", "NOPE", aggregateId, changes, createdAt, now)

\* eventStore.add(new Autre(id, {}))
AddForeign(id) ==
  /\ Len(heap) < MaxHeap
  /\ Len(events) < MaxLog
  /\ heap' = Append(heap, EmptyObj)
  /\ events' = add(events, Autre(id, Len(heap) + 1, << >>, clock))
  /\ UNCHANGED <<aggregate, clock, pc, timers>>

ForeignNext ==
  \/ Next
  \/ \E id \in Ids : AddForeign(id)

SpecForeign == Init /\ [][ForeignNext]_vars

----------------------------------------------------------------------------
(* What the claims speak of *)

IsPrefix(a, b) == Len(a) <= Len(b) /\ SubSeq(b, 1, Len(a)) = a

EndsWith(a, b) ==
  Len(b) <= Len(a) /\ SubSeq(a, Len(a) - Len(b) + 1, Len(a)) = b

\* The records of the pending events of the caller's Formation, in order
Batch ==
  [k \in 1..Len(aggregate[1].events) |->
     [ nom         |-> aggregate[1].events[k].nom,
       aggregateId |-> aggregate[1].events[k].aggregateId,
       createdAt   |-> aggregate[1].events[k].createdAt,
       changes     |-> aggregate[1].events[k].changes ]]

\* The places in the log of the records of aggregate id
EventsOf(log, id) == {k \in 1..Len(log) : log[k].aggregateId = id}

DistinctStamps(log, id) ==
  \A a, b \in EventsOf(log, id) : a # b => log[a].createdAt # log[b].createdAt

Writes(log, k, key) == key \in DOMAIN heap[log[k].changes]

\* For each key some record of id writes, the value written by the record
\* with the latest createdAt among those that write it
LastWriteWins(log, id) ==
  [key \in UNION {DOMAIN heap[log[k].changes] : k \in EventsOf(log, id)} |->
     LET w == CHOOSE k \in EventsOf(log, id) :
                /\ Writes(log, k, key)
                /\ \A j \in EventsOf(log, id) :
                     Writes(log, j, key) => log[j].createdAt <= log[k].createdAt
     IN  heap[log[w].changes][key]]

\* The same with ties on createdAt broken by the place in the log
LastWriteWinsStable(log, id) ==
  [key \in UNION {DOMAIN heap[log[k].changes] : k \in EventsOf(log, id)} |->
     LET w == CHOOSE k \in EventsOf(log, id) :
                /\ Writes(log, k, key)
                /\ \A j \in EventsOf(log, id) :
                     Writes(log, j, key) =>
                       \/ log[j].createdAt < log[k].createdAt
                       \/ (log[j].createdAt = log[k].createdAt /\ j <= k)
     IN  heap[log[w].changes][key]]

Degenerate ==
  [ id |-> Undefined, nom |-> Undefined, dureeEnHeures |-> Undefined,
    date |-> Null, nomFormateur |-> Null, events |-> << >> ]

----------------------------------------------------------------------------
(* C1 *)

\* C1: the store is append-only.  Whatever the caller does (creer,
\* planifierLe, persist, getById, add), the log before the step is a prefix
\* of the log after it, the payloads of the records already there are left
\* as they were, and list() gives back the records one for one, in the
\* order of the log.
C1_AppendOnly ==
  [][ /\ IsPrefix(events, events')
      /\ \A k \in 1..Len(events) : heap'[events[k].changes] = heap[events[k].changes]
      /\ ~list(events', clock').threw
      /\ Len(list(events', clock').value) = Len(events')
      /\ \A k \in 1..Len(events') :
           toState(list(events', clock').value[k]) = events'[k] ]_vars

\* Two different records are in the log and the caller holds a Formation
C1_Witness ==
  /\ Len(events) >= 2
  /\ events[1] # events[2]
  /\ aggregate # << >>

----------------------------------------------------------------------------
(* C2 *)

\* C2: persist(f) makes the log the log before it followed by the records
\* of the pending events of f, each once, in the order of the pending list.
C2_PersistAppendsPending ==
  [][ Persist => events' = events \o Batch ]_vars

\* A Formation with two pending events persisted onto a log that was not empty
C2_Witness ==
  /\ aggregate # << >>
  /\ Len(aggregate[1].events) = 2
  /\ Len(events) = 3
  /\ SubSeq(events, 2, 3) = Batch

----------------------------------------------------------------------------
(* C3 *)

\* C3: persist leaves the pending list of f as it is and always grows the
\* log by |f.events| records; when the log already ends with the batch (f was
\* persisted and not changed since) it ends, after the call, with the batch
\* twice.
C3_PersistNotIdempotent ==
  [][ Persist =>
        /\ aggregate' = aggregate
        /\ Len(events') = Len(events) + Len(aggregate[1].events)
        /\ EndsWith(events, Batch) => EndsWith(events', Batch \o Batch) ]_vars

\* The same Formation persisted twice: its one event is in the log twice
C3_Witness ==
  /\ aggregate # << >>
  /\ Len(aggregate[1].events) = 1
  /\ events = Batch \o Batch

----------------------------------------------------------------------------
(* C4 *)

ExampleHeap == <<[a |-> "1"], [a |-> "2", b |-> "1"], [b |-> "2"]>>

ExampleLog ==
  << [nom |-> FORMATION_CREEE, aggregateId |-> "X", createdAt |-> 1, changes |-> 1],
     [nom |-> FORMATION_PLANIFIEE, aggregateId |-> "X", createdAt |-> 3, changes |-> 2],
     [nom |-> FORMATION_PLANIFIEE, aggregateId |-> "X", createdAt |-> 2, changes |-> 3] >>

\* C4: for every id whose records in the log have pairwise distinct
\* createdAt, the one state getById(id) computes holds, for each key, the
\* value written by the record of id with the latest createdAt among those
\* that write the key, wherever the records stand in the log; the log
\* E1(t=1,{a:1}), E2(t=3,{a:2,b:1}), E3(t=2,{b:2}) folds to {a:2,b:1}.
C4_ProjectsByCreationTime ==
  /\ \A id \in Ids :
       DistinctStamps(events, id) =>
         getById(events, id, heap, clock) = {LastWriteWins(events, id)}
  /\ getById(ExampleLog, "X", ExampleHeap, 0) = {[a |-> "2", b |-> "1"]}

\* The caller holds what getById("X") built from a log in which a record of
\* X stands before an older record of X that writes another value to a key
C4_Witness ==
  /\ DistinctStamps(events, "X")
  /\ aggregate = <<Formation_fromState(LastWriteWins(events, "X"))>>
  /\ \E i, j \in EventsOf(events, "X") :
       /\ i < j
       /\ events[i].createdAt > events[j].createdAt
       /\ \E key \in DOMAIN heap[events[i].changes] :
            /\ Writes(events, j, key)
            /\ heap[events[i].changes][key] # heap[events[j].changes][key]
            /\ aggregate[1][key] = heap[events[i].changes][key]

----------------------------------------------------------------------------
(* C5 *)

\* C5: the sort in getById is stable on ties: records of one aggregate with
\* equal createdAt are folded in the order of the log, so that the one state
\* getById(id) computes holds, for a key two of them write, the value of
\* the one appended later.
C5_StableOnTies ==
  \A id \in Ids :
    getById(events, id, heap, clock) = {LastWriteWinsStable(events, id)}

----------------------------------------------------------------------------
(* C8 *)

\* C8: every Formation the caller gets from creer or getById, after any
\* number of planifierLe calls, has an id that is not empty, and every event
\* it emitted carries that id.
C8_IdNeverEmpty ==
  aggregate # << >> =>
    /\ aggregate[1].id \notin {Undefined, Null, ""}
    /\ \A k \in 1..Len(aggregate[1].events) :
         aggregate[1].events[k].aggregateId = aggregate[1].id

----------------------------------------------------------------------------
(* C9 *)

\* C9: getById(id) for an id no record of the log carries does not throw,
\* folds to the empty mapping, hands the caller the degenerate Formation
\* (id, nom and dureeEnHeures undefined, date and nomFormateur null, no
\* pending event) and leaves the log as it is.
C9_NoMatchLoad ==
  [][ \A id \in Ids :
        (GetById(id) /\ EventsOf(events, id) = {}) =>
          /\ ~list(events, clock).threw
          /\ getById(events, id, heap, clock) = {EmptyObj}
          /\ aggregate' = <<Degenerate>>
          /\ events' = events ]_vars

\* The degenerate Formation loaded from a log that holds another aggregate
C9_Witness ==
  /\ aggregate = <<Degenerate>>
  /\ Len(events) > 0
  /\ \E id \in Ids : EventsOf(events, id) = {}

----------------------------------------------------------------------------
(* C10 *)

\* The Formation the caller holds was loaded and scheduled once, its one
\* pending event is stamped later than every record of its aggregate, and
\* those records have pairwise distinct stamps
FreshlyScheduled(id) ==
  /\ aggregate # << >>
  /\ Len(aggregate[1].events) = 1
  /\ aggregate[1].events[1].nom = FORMATION_PLANIFIEE
  /\ aggregate[1].events[1].aggregateId = id
  /\ EventsOf(events, id) # {}
  /\ DistinctStamps(events, id)
  /\ \A k \in EventsOf(events, id) :
       events[k].createdAt < aggregate[1].events[1].createdAt

----------------------------------------------------------------------------
(* C6 *)

\* The record in the log of the event task k emitted (the two tasks are
\* given different dates), and the instant it was stamped with
TaskRecord(k) ==
  events[CHOOSE i \in 1..Len(events) :
           /\ events[i].nom = FORMATION_PLANIFIEE
           /\ heap[events[i].changes].date = timers[k].date]

Stamp(k) == TaskRecord(k).createdAt

Tasks == {2, 3}

\* C6: once both tasks that share the Formation loaded once have scheduled
\* and persisted it, the Formation main reloads has the date and the
\* instructor of the task whose event is stamped later, whichever of the two
\* was started first.
C6_RaceLaterStampWins ==
  pc = "done" =>
    \A k, j \in Tasks :
      Stamp(k) > Stamp(j) =>
        /\ aggregate[1].date = timers[k].date
        /\ aggregate[1].nomFormateur = "SRE"

\* The demo: '2021' behind the longer delay is started first, '2020' behind
\* no delay second; the event of '2021' is stamped later and '2021' is read
C6_Witness ==
  /\ pc = "done"
  /\ timers[2].date = "2021"
  /\ timers[3].date = "2020"
  /\ timers[2].due = timers[3].due + 2
  /\ Stamp(2) > Stamp(3)
  /\ aggregate[1].date = "2021"

----------------------------------------------------------------------------
(* C7 *)

\* C7: after both tasks finished the log is the log before the race (the one
\* creation record) plus two FORMATION_PLANIFIEE records, one per task.
C7_TwoRecordsAppended ==
  pc = "done" =>
    /\ Len(events) = 3
    /\ events[2].nom = FORMATION_PLANIFIEE
    /\ events[3].nom = FORMATION_PLANIFIEE
    /\ events[2] # events[3]

\* C7, amended: after both tasks finished the log is the log before the race
\* plus three FORMATION_PLANIFIEE records: the event of the task that ran
\* first, that same event again, and the event of the task that ran second
\* (the second persist appends the whole pending list of the shared
\* Formation); the two events are one per task.
C7_ThreeRecordsAppended ==
  pc = "done" =>
    /\ Len(events) = 4
    /\ events[1].nom = FORMATION_CREEE
    /\ \A k \in 2..4 : events[k].nom = FORMATION_PLANIFIEE
    /\ events[2] = events[3]
    /\ events[4].changes # events[3].changes
    /\ events[3].createdAt <= events[4].createdAt
    /\ {heap[events[3].changes].date, heap[events[4].changes].date}
         = {timers[k].date : k \in Tasks}

\* Both tasks finished, the task started first ran last: its record is the
\* last of the log, after the other task's record, which is there twice
C7_Witness ==
  /\ pc = "done"
  /\ Len(events) = 4
  /\ events[2] = events[3]
  /\ heap[events[4].changes].date = timers[2].date
  /\ heap[events[2].changes].date = timers[3].date

----------------------------------------------------------------------------
(* C11 *)

\* The Formation the caller holds came from creer(id, ...) and was left as
\* it was: its one pending event is the creation of id
JustCreated(id) ==
  /\ aggregate # << >>
  /\ Len(aggregate[1].events) = 1
  /\ aggregate[1].events[1].nom = FORMATION_CREEE
  /\ aggregate[1].events[1].aggregateId = id

\* C11: when the Formation creer(id, nom, d) returned is persisted to a log
\* that holds no record of id, a getById(id) after the persist computes one
\* state, and the Formation built from it has that id, nom and
\* dureeEnHeures, date = null, nomFormateur = null (and no pending event).
C11_CreateThenRead ==
  [][ \A id \in Ids :
        (Persist /\ JustCreated(id) /\ EventsOf(events, id) = {}) =>
          /\ ~list(events', clock').threw
          /\ \E state \in getById(events', id, heap', clock') :
               getById(events', id, heap', clock') = {state}
          /\ \A state \in getById(events', id, heap', clock') :
               LET read == Formation_fromState(state)
               IN  /\ read.id = id
                   /\ read.nom = aggregate[1].nom
                   /\ read.nom \in Noms
                   /\ read.dureeEnHeures = aggregate[1].dureeEnHeures
                   /\ read.dureeEnHeures \in Durees
                   /\ read.date = Null
                   /\ read.nomFormateur = Null
                   /\ read.events = << >> ]_vars

\* Created, persisted and read back: the one record of X in the log is its
\* creation and the caller holds the Formation getById("X") built from it
C11_Witness ==
  /\ \E k \in 1..Len(events) :
       /\ EventsOf(events, "X") = {k}
       /\ events[k].nom = FORMATION_CREEE
       /\ heap[events[k].changes] = [id |-> "X", nom |-> "DDD", dureeEnHeures |-> "14"]
  /\ aggregate = << [ id |-> "X", nom |-> "DDD", dureeEnHeures |-> "14",
                      date |-> Null, nomFormateur |-> Null, events |-> << >> ] >>

----------------------------------------------------------------------------
(* C12 *)

\* C12: the Formation getById(id) hands the caller has no pending event,
\* whatever the log holds, so that persisting it as it is leaves the log as
\* it is: a load never emits again the history it read.
C12_LoadedHasNoPending ==
  [][ \A id \in Ids :
        GetById(id) =>
          /\ aggregate' # << >>
          /\ aggregate'[1].events = << >>
          /\ persist(events', aggregate'[1].events) = events'
          /\ \A state \in getById(events, id, heap, clock) :
               /\ Formation_fromState(state).events = << >>
               /\ persist(events, Formation_fromState(state).events) = events ]_vars

\* Loaded from a log that holds the creation of X and a later record of X:
\* the caller's Formation is X with a date and no pending event
C12_Witness ==
  /\ \E i, j \in EventsOf(events, "X") :
       /\ events[i].nom = FORMATION_CREEE
       /\ events[j].nom = FORMATION_PLANIFIEE
  /\ aggregate # << >>
  /\ aggregate[1].id = "X"
  /\ aggregate[1].date # Null
  /\ aggregate[1].events = << >>

----------------------------------------------------------------------------
(* C13 *)

\* What list() gives back, with each payload in full
listedInFull(log, objs, now) ==
  [k \in 1..Len(list(log, now).value) |->
     [list(log, now).value[k] EXCEPT !.changes = objs[@]]]

\* C13: what list() returned is the caller's own: a write to the changes
\* payload of an event reached through it leaves what a later list() gives
\* back, payloads included, and what a later getById(id) computes for any
\* id, as they were before the write.
C13_ListedIsIndependent ==
  [][ (\E k \in 1..MaxLog : Tamper(k, "nom", "hack")) =>
        /\ listedInFull(events', heap', clock') = listedInFull(events, heap, clock)
        /\ \A id \in Ids :
             getById(events', id, heap', clock') = getById(events, id, heap, clock) ]_vars

----------------------------------------------------------------------------
(* C14 *)

\* C14: for every pending event e of the Formation persist is called with,
\* of either variant, fromState(e.toState()) is, at whatever instant it is
\* called, an event of the same class with the same kind tag, aggregateId,
\* createdAt and changes object as e; and the events list() gives back for
\* the records persist appended are those events.
C14_RoundTrip ==
  [][ Persist =>
        LET pending == aggregate[1].events
            back    == list(events', clock')
        IN  /\ ~back.threw
            /\ Len(back.value) = Len(events) + Len(pending)
            /\ \A k \in 1..Len(pending) :
                 /\ back.value[Len(events) + k] = pending[k]
                 /\ \A now \in 0..MaxClock :
                      LET e == DomainEvent_fromState(toState(pending[k]), now)
                      IN  /\ ~IsError(e)
                          /\ e.class = pending[k].class
                          /\ e.nom = pending[k].nom
                          /\ e.aggregateId = pending[k].aggregateId
                          /\ e.createdAt = pending[k].createdAt
                          /\ e.changes = pending[k].changes ]_vars

\* A creation and a scheduling persisted and read back at a later instant:
\* list() gives back the two events the Formation emitted
C14_Witness ==
  /\ aggregate # << >>
  /\ Len(aggregate[1].events) = 2
  /\ aggregate[1].events[1].class = "FormationCreee"
  /\ aggregate[1].events[2].class = "FormationPlanifiee"
  /\ list(events, clock).value = aggregate[1].events
  /\ \A k \in 1..2 : aggregate[1].events[k].createdAt < clock

----------------------------------------------------------------------------
(* C15 *)

KnownKinds == {FORMATION_CREEE, FORMATION_PLANIFIEE}

\* C15: fromState on a record whose nom is neither of the two known tags
\* is an error and no event; when the log holds such a record, wherever it
\* stands and whichever aggregate it belongs to, list() throws and returns
\* no array, and getById(id) returns no state, for any id.
C15_UnknownKindThrows ==
  /\ \A k \in 1..Len(events) :
       events[k].nom \notin KnownKinds =>
         /\ IsError(DomainEvent_fromState(events[k], clock))
         /\ DomainEvent_fromState(events[k], clock) = UnknownKind
  /\ (\E k \in 1..Len(events) : events[k].nom \notin KnownKinds) =>
       /\ list(events, clock).threw
       /\ list(events, clock).value = << >>
       /\ \A id \in Ids : getById(events, id, heap, clock) = {}

\* The creation of X persisted, then an event of an unknown kind added for
\* another aggregate: list() throws
C15_Witness ==
  /\ Len(events) >= 2
  /\ events[1].nom = FORMATION_CREEE
  /\ events[1].aggregateId = "X"
  /\ events[Len(events)].nom = "NOPE"
  /\ events[Len(events)].aggregateId = "Y"
  /\ list(events, clock).threw

----------------------------------------------------------------------------
(* C16 *)

\* The delay of task k completes before the delay of task j
DueBefore(k, j) ==
  \/ timers[k].due < timers[j].due
  \/ (timers[k].due = timers[j].due /\ k < j)

\* C16: what a task does after its delay is one step: it schedules the
\* shared Formation with its date and appends the whole pending list, as
\* one block at the end of the log, with no step of the other task in
\* between.  The task whose delay completes first runs first: it finds
\* the log with the creation alone and appends its one record; the other
\* finds that record in the log and appends its batch (that record again,
\* then its own) after it.
C16_TasksAtomicInDelayOrder ==
  [][ \A k \in Tasks :
        TaskRun(k) =>
          LET j    == CHOOSE x \in Tasks : x # k
              mine == toState(aggregate'[1].events[Len(aggregate'[1].events)])
          IN  /\ heap'[mine.changes].date = timers[k].date
              /\ aggregate'[1].date = timers[k].date
              /\ timers'[k].done
              /\ timers'[j] = timers[j]
              /\ IF ~timers[j].done
                 THEN /\ DueBefore(k, j)
                      /\ Len(events) = 1
                      /\ aggregate[1].events = << >>
                      /\ events' = events \o <<mine>>
                 ELSE /\ DueBefore(j, k)
                      /\ Len(events) = 2
                      /\ heap[events[2].changes].date = timers[j].date
                      /\ events' = events \o <<events[2], mine>> ]_vars

\* Both tasks ran, the one started second behind the shorter delay: its
\* record stands before the batch of the task started first
C16_Witness ==
  /\ pc = "race"
  /\ timers[2].done
  /\ timers[3].done
  /\ timers[3].due < timers[2].due
  /\ heap[events[2].changes].date = timers[3].date
  /\ SubSeq(events, 3, 4) = Batch
  /\ heap[events[4].changes].date = timers[2].date

----------------------------------------------------------------------------
(* C17 *)

\* The fields of a Formation, without its pending events
Fields(f) ==
  [ id |-> f.id, nom |-> f.nom, dureeEnHeures |-> f.dureeEnHeures,
    date |-> f.date, nomFormateur |-> f.nomFormateur ]

\* The payloads of the pending events of f
PendingChanges(f) == [k \in 1..Len(f.events) |-> f.events[k].changes]

\* C17: creer and planifierLe leave the log and the payloads already made
\* as they are.  creer(id, nom, d) returns a Formation with one pending
\* event, a FormationCreee of id whose payload is {id, nom, dureeEnHeures}.
\* planifierLe(date, n) adds one pending event after those there, a
\* FormationPlanifiee of the Formation's id whose payload is {date,
\* nomFormateur} with the values the fields now have, and the fields after
\* it are the fields before it merged with that payload.  So the fields
\* of a Formation built by creer are the fold of the payloads of its
\* pending events, in their order.
C17_MutationsEmitEvents ==
  [][ /\ \A id \in Ids, nom \in Noms, d \in Durees :
           Creer(id, nom, d) =>
             /\ events' = events
             /\ SubSeq(heap', 1, Len(heap)) = heap
             /\ Len(aggregate'[1].events) = 1
             /\ aggregate'[1].events[1].class = "FormationCreee"
             /\ aggregate'[1].events[1].nom = FORMATION_CREEE
             /\ aggregate'[1].events[1].aggregateId = id
             /\ heap'[aggregate'[1].events[1].changes]
                  = [id |-> id, nom |-> nom, dureeEnHeures |-> d]
             /\ Fields(aggregate'[1])
                  = [ id |-> id, nom |-> nom, dureeEnHeures |-> d,
                      date |-> Null, nomFormateur |-> Null ]
      /\ \A date \in Dates, n \in Formateurs :
           PlanifierLe(date, n) =>
             LET last == aggregate'[1].events[Len(aggregate'[1].events)]
             IN  /\ events' = events
                 /\ SubSeq(heap', 1, Len(heap)) = heap
                 /\ aggregate'[1].events = Append(aggregate[1].events, last)
                 /\ last.class = "FormationPlanifiee"
                 /\ last.nom = FORMATION_PLANIFIEE
                 /\ last.aggregateId = aggregate[1].id
                 /\ heap'[last.changes] = [date |-> date, nomFormateur |-> n]
                 /\ heap'[last.changes] = [ date |-> aggregate'[1].date,
                                            nomFormateur |-> aggregate'[1].nomFormateur ]
                 /\ Fields(aggregate'[1])
                      = Spread(Fields(aggregate[1]), heap'[last.changes])
      /\ ( /\ aggregate' # << >>
           /\ aggregate'[1].events # << >>
           /\ aggregate'[1].events[1].nom = FORMATION_CREEE ) =>
             Fields(aggregate'[1])
               = Fields(Formation_fromState(
                          reduce(PendingChanges(aggregate'[1]), EmptyObj, heap'))) ]_vars

\* Created, then scheduled, nothing persisted: two pending events, the
\* second with the date and the instructor the Formation now has
C17_Witness ==
  /\ events = << >>
  /\ aggregate # << >>
  /\ Len(aggregate[1].events) = 2
  /\ aggregate[1].events[1].nom = FORMATION_CREEE
  /\ aggregate[1].events[2].nom = FORMATION_PLANIFIEE
  /\ heap[aggregate[1].events[2].changes] = [date |-> "2021", nomFormateur |-> "SRE"]
  /\ aggregate[1].date = "2021"
  /\ aggregate[1].nomFormateur = "SRE"

----------------------------------------------------------------------------
(* C18 *)

\* The log with the records at the places in P only, in their order
Restrict(log, P) ==
  LET idx == SelectSeq([k \in 1..Len(log) |-> k], LAMBDA k : k \in P)
  IN  [i \in 1..Len(idx) |-> log[idx[i]]]

\* C18: getById(id) computes the same on the log and on every log that
\* holds the records of id in the same order and any part of the records
\* of the other aggregates, none of them included: two logs with the same
\* records of id, whatever else stands between them, give the same states.
C18_Isolation ==
  \A id \in Ids :
    \A others \in SUBSET ((1..Len(events)) \ EventsOf(events, id)) :
      /\ eventsForAggregate(list(Restrict(events, EventsOf(events, id) \cup others),
                                  clock).value, id)
           = eventsForAggregate(list(events, clock).value, id)
      /\ getById(Restrict(events, EventsOf(events, id) \cup others), id, heap, clock)
           = getById(events, id, heap, clock)

\* The creation of X, then the creation of Y, are in the log, and the
\* caller holds what getById("X") built: nothing of Y is in it
C18_Witness ==
  /\ Len(events) >= 2
  /\ events[1].aggregateId = "X"
  /\ events[1].nom = FORMATION_CREEE
  /\ events[2].aggregateId = "Y"
  /\ events[2].nom = FORMATION_CREEE
  /\ events[2].createdAt > events[1].createdAt
  /\ aggregate # << >>
  /\ aggregate[1].id = "X"
  /\ aggregate[1].events = << >>

----------------------------------------------------------------------------
(* C19 *)

\* C19: whatever the caller did with creer, planifierLe, persist, getById
\* and add, every record of the log has one of the two known tags, list()
\* does not throw and gives back one event per record, and getById(id)
\* computes a state for every id.
C19_OnlyKnownKinds ==
  /\ \A k \in 1..Len(events) : events[k].nom \in KnownKinds
  /\ ~list(events, clock).threw
  /\ \A k \in 1..Len(events) : ~IsError(list(events, clock).value[k])
  /\ \A id \in Ids : getById(events, id, heap, clock) # {}

\* A creation that was persisted and a scheduling that was added are in the
\* log, and the caller holds what getById built from them
C19_Witness ==
  /\ \E i, j \in 1..Len(events) :
       /\ events[i].nom = FORMATION_CREEE
       /\ events[j].nom = FORMATION_PLANIFIEE
       /\ "nom" \in DOMAIN heap[events[j].changes]
  /\ aggregate # << >>
  /\ aggregate[1].events = << >>
  /\ aggregate[1].nom = "TDD"

----------------------------------------------------------------------------
(* C20 *)

\* The records of the batch that are not in the log yet, in their order
NewOnly(log, batch) ==
  SelectSeq(batch, LAMBDA r : \A k \in 1..Len(log) : log[k] # r)

\* No two records of id that differ have the same createdAt
DistinctEventStamps(log, id) ==
  \A a, b \in EventsOf(log, id) :
    log[a] # log[b] => log[a].createdAt # log[b].createdAt

\* C20: when persist appends again records that are in the log already
\* (the Formation was persisted before, by this caller or by another task
\* that shares it), and the events of its aggregate have pairwise distinct
\* createdAt, the log grows but getById(id) computes, for every id, what
\* it would had the records that are new been appended alone: what it
\* computed before the call when none is new.
C20_RepersistHarmless ==
  [][ ( /\ Persist
        /\ \E k \in 1..Len(Batch) : \E i \in 1..Len(events) : events[i] = Batch[k]
        /\ DistinctEventStamps(events', aggregate[1].id) ) =>
          /\ Len(events') > Len(events)
          /\ \A id \in Ids :
               /\ getById(events', id, heap', clock')
                    = getById(events \o NewOnly(events, Batch), id, heap, clock)
               /\ NewOnly(events, Batch) = << >> =>
                    getById(events', id, heap', clock')
                      = getById(events, id, heap, clock) ]_vars

\* The creation of X persisted, a later scheduling of X added, the creation
\* persisted again: it is the last record of the log, and getById("X")
\* computes what it computes on the log without it
C20_Witness ==
  /\ Len(events) = 3
  /\ events[1] = events[3]
  /\ events[1].nom = FORMATION_CREEE
  /\ events[1].aggregateId = "X"
  /\ events[2].aggregateId = "X"
  /\ events[2].createdAt > events[1].createdAt
  /\ aggregate # << >>
  /\ Batch = <<events[3]>>
  /\ getById(events, "X", heap, clock) = getById(SubSeq(events, 1, 2), "X", heap, clock)
  /\ \A state \in getById(events, "X", heap, clock) : state.nom = "TDD"

====
